---- MODULE Spec2Model ----
(***************************************************************************)
(* StackMM: a Photoshop script that collects the images of two             *)
(* acquisitions in two modal dialogs, classifies them by file name, orders *)
(* them, stacks them as layers of one document, groups the pMaps, links    *)
(* the layers of each acquisition, cleans the masks and flips the canvas.  *)
(*                                                                         *)
(* Two revisions of the script are modelled side by side, chosen by the    *)
(* variable `script`: src/StackMM.jsx and src/unnamed/part_002 (the        *)
(* revision with isImage, Remove, Cancel Script and the guarded Done).     *)
(***************************************************************************)
EXTENDS Integers, Sequences, FiniteSets, TLC

VARIABLES
    script,      \* which revision of the script runs
    pc,          \* position of main
    shown,       \* labels of the acquisition dialogs shown so far
    dlgImages,   \* collectImages: the local array `images` of the open dialog
    fileListBox, \* collectImages: the items of the list box of the open dialog
    chosenFiles, \* addButton.onClick: var files of the last call that changed
                 \* the selection of the open dialog (<<>> if none since)
    ret,         \* what collectImages returned, per acquisition label
    first,       \* main: var first
    second,      \* main: var second
    images,      \* main: var images (after orderImages: parts.ordered)
    masks,       \* main: var masks
    MMs,         \* main: var MMs
    pMaps,       \* main: var pMaps
    averages,    \* main: var averages
    layer,       \* ImageObject.layer of every image, by object identity (0 = null)
    docOpen,     \* a document has been opened by app.open
    docLayers,   \* doc.layers: the top-level layers, index 1 is the top
    pMapsGroup,  \* the layer set added by groupPMaps (0 = none)
    groupLayers, \* the layers inside the layer set, index 1 is the top
    activeLayer, \* doc.activeLayer (0 = none)
    links,       \* pairs <<a, b>> for every call a.link(b)
    edits,       \* per layer, the pixel operations applied to it, in order
    flipped      \* doc.flipCanvas has run

vars == <<script, pc, shown, dlgImages, fileListBox, chosenFiles, ret, first, second, images,
          masks, MMs, pMaps, averages, layer, docOpen, docLayers, pMapsGroup,
          groupLayers, activeLayer, links, edits, flipped>>

(***************************************************************************)
(* Bounds of the model.                                                    *)
(***************************************************************************)
\* the most images the two dialogs hold together
MaxImages == 4
\* the most files picked in one File.openDialog
MaxBatch == 2
\* the most images handed to orderImages in SpecOrder
MaxInput == 4

(***************************************************************************)
(* Strings are sequences of one-character strings.                         *)
(***************************************************************************)
UpperCase == <<"A","B","C","D","E","F","G","H","I","J","K","L","M",
               "N","O","P","Q","R","S","T","U","V","W","X","Y","Z">>
LowerCase == <<"a","b","c","d","e","f","g","h","i","j","k","l","m",
               "n","o","p","q","r","s","t","u","v","w","x","y","z">>

Range(s) == {s[i] : i \in 1..Len(s)}
IndexIn(s, c) == CHOOSE i \in 1..Len(s) : s[i] = c
UpperSet == Range(UpperCase)
LowerSet == Range(LowerCase)

\* the UTF-16 code unit of a character ("." is the only other character)
CharCode(c) ==
    IF c \in UpperSet THEN 64 + IndexIn(UpperCase, c)
    ELSE IF c \in LowerSet THEN 96 + IndexIn(LowerCase, c)
    ELSE 46

\* String.prototype.toLowerCase, one character
LowerChar(c) ==
    IF c \in UpperSet THEN LowerCase[IndexIn(UpperCase, c)] ELSE c

\* a toLowerCase that leaves the text as it is
toLowerCaseKeepsCase(s) == s

\* String.prototype.toLowerCase
toLowerCase(s) == [i \in 1..Len(s) |-> LowerChar(s[i])]

\* t occurs in s at the 0-based position p
OccursAt(s, t, p) ==
    /\ p + Len(t) <= Len(s)
    /\ \A k \in 1..Len(t) : s[p + k] = t[k]

\* String.prototype.indexOf: the first 0-based position of t in s, or -1
indexOf(s, t) ==
    IF \E p \in 0..Len(s) : OccursAt(s, t, p)
    THEN CHOOSE p \in 0..Len(s) :
            /\ OccursAt(s, t, p)
            /\ \A q \in 0..(p - 1) : ~OccursAt(s, t, q)
    ELSE -1

\* a lastIndexOf that finds the first position
lastIndexOfFindsFirst(s, t) ==
    IF \E p \in 0..Len(s) : OccursAt(s, t, p)
    THEN CHOOSE p \in 0..Len(s) :
            /\ OccursAt(s, t, p)
            /\ \A q \in 0..(p - 1) : ~OccursAt(s, t, q)
    ELSE -1

\* String.prototype.lastIndexOf: the last 0-based position of t in s, or -1
lastIndexOf(s, t) ==
    IF \E p \in 0..Len(s) : OccursAt(s, t, p)
    THEN CHOOSE p \in 0..Len(s) :
            /\ OccursAt(s, t, p)
            /\ \A q \in (p + 1)..Len(s) : ~OccursAt(s, t, q)
    ELSE -1

\* String.prototype.substring(start): the text from the 0-based start to the end
substring(s, start) == [i \in 1..(Len(s) - start) |-> s[start + i]]

\* String.prototype.localeCompare, by code units: -1, 0 or 1
RECURSIVE localeCompare(_, _)
localeCompare(a, b) ==
    IF a = <<>> /\ b = <<>> THEN 0
    ELSE IF a = <<>> THEN -1
    ELSE IF b = <<>> THEN 1
    ELSE IF CharCode(Head(a)) < CharCode(Head(b)) THEN -1
    ELSE IF CharCode(Head(a)) > CharCode(Head(b)) THEN 1
    ELSE localeCompare(Tail(a), Tail(b))

(***************************************************************************)
(* The files the dialogs offer: a mask whose name also holds "pmap", a      *)
(* pMap, an average image and an MM, all with supported extensions; a text *)
(* file and a file without extension.                                      *)
(***************************************************************************)
kwPMap == <<"p","m","a","p">>
kwMask == <<"m","a","s","k">>
kwAverage == <<"a","v","e","r","a","g","e">>

MaskTif == <<"M","a","s","k",".","t","i","f">>
PMapPng == <<"p","M","A","P",".","p","n","g">>
AverageJpg == <<"A","v","e","r","a","g","e",".","J","P","G">>
MmTiff == <<"m","m",".","t","i","f","f">>
MaskTxt == <<"M","a","s","k",".","t","x","t">>
PmapMaskJpeg == <<"P","m","a","p","M","A","S","K",".","j","p","e","g">>
MasKPng == <<"M","a","s",".","k",".","p","n","g">>
NoExtension == <<"p","n","g">>

FileNames == {PmapMaskJpeg, PMapPng, AverageJpg, MmTiff, MaskTxt, NoExtension}

\* the image files handed to the ordering alone: with two masks, one
\* of them with two keywords, and an MM whose name only nearly holds a keyword
OrderFileNames == {MaskTif, PMapPng, AverageJpg, PmapMaskJpeg, MasKPng}

\* the files offered when the Add Files button is looked at alone: images
\* with two dots, with a mixed-case extension and with nothing before the
\* dot; other files with a supported extension before the last dot, with a
\* dot at the end, and with an extension one letter longer or shorter
AXPng == <<"a",".","x",".","P","N","G">>
ATif == <<"A",".","T","i","f">>
DotJpg == <<".","j","p","g">>
ATifX == <<"a",".","t","i","f",".","x">>
APngDot == <<"a",".","p","n","g",".">>
ATifff == <<"a",".","t","i","f","f","f">>
AJp == <<"a",".","j","p">>

ExtensionFileNames == {AXPng, ATif, DotJpg, ATifX, APngDot, ATifff, AJp}

\* localeCompare for every two file names
CompareNames ==
    [a \in FileNames \cup OrderFileNames, b \in FileNames \cup OrderFileNames |->
        localeCompare(a, b)]

Files == {[name |-> n] : n \in FileNames}
ExtensionFiles == {[name |-> n] : n \in ExtensionFileNames}

(***************************************************************************)
(* ImageObject and isImage.                                                *)
(***************************************************************************)
\* new ImageObject(file, isFirstAcquisition); layer is kept in `layer`
ImageObject(file, isFirstAcquisition) ==
    LET name == toLowerCase(file.name)
        isPMap == indexOf(name, kwPMap) # -1
        isMask == indexOf(name, kwMask) # -1
        isAverage == indexOf(name, kwAverage) # -1
    IN  [file |-> file,
         isFirstAcquisition |-> isFirstAcquisition,
         isPMap |-> isPMap,
         isMask |-> isMask,
         isAverage |-> isAverage,
         isMM |-> ~isPMap /\ ~isMask /\ ~isAverage]

validExts ==
    << <<".","j","p","g">>, <<".","j","p","e","g">>, <<".","p","n","g">>,
       <<".","t","i","f">>, <<".","t","i","f","f">> >>

isImage(filename) ==
    LET lower == toLowerCase(filename)
        dot == lastIndexOf(lower, <<".">>)
    IN  IF dot = -1 THEN FALSE
        ELSE \E i \in 1..Len(validExts) : substring(lower, dot) = validExts[i]

(***************************************************************************)
(* collectImages: the dialog and its four buttons.                         *)
(***************************************************************************)
Scripts == {"StackMM.jsx", "part_002"}
Labels == {"FIRST", "SECOND"}

\* the label of the dialog that is open, if one is
acquisitionLabel == IF pc = "first" THEN "FIRST" ELSE "SECOND"
isFirst == (pc = "first")
DialogOpen == pc \in {"first", "second"}

\* the extensions of the filter "Images:*.jpg;*.jpeg;*.png;*.tif;*.tiff;
\* *.JPG;*.JPEG;*.PNG;*.TIF;*.TIFF" that StackMM.jsx hands to File.openDialog
filterExts ==
    { <<".","j","p","g">>, <<".","j","p","e","g">>, <<".","p","n","g">>,
      <<".","t","i","f">>, <<".","t","i","f","f">>,
      <<".","J","P","G">>, <<".","J","P","E","G">>, <<".","P","N","G">>,
      <<".","T","I","F">>, <<".","T","I","F","F">> }

\* the name ends with the text t
EndsWith(s, t) == Len(t) <= Len(s) /\ substring(s, Len(s) - Len(t)) = t

\* the files File.openDialog offers: those that match the filter in
\* StackMM.jsx, every file in part_002 (its filter is "")
Selectable ==
    [sc \in {"StackMM.jsx", "part_002"} |->
        IF sc = "StackMM.jsx"
        THEN {f \in Files : \E e \in filterExts : EndsWith(f.name, e)}
        ELSE Files]

\* the non-empty selections of n files File.openDialog can return
Batches(n) == [1..n -> Selectable[script]]

\* the ImageObject built for each file, and whether isImage accepts its name
ImageObjects ==
    [f \in Files \cup ExtensionFiles, acq \in BOOLEAN |-> ImageObject(f, acq)]
IsImageFile == [f \in Files \cup ExtensionFiles |-> isImage(f.name)]

\* the images the loop of addButton.onClick pushes for the chosen files
RECURSIVE Pushed(_, _, _)
Pushed(files, acq, filter) ==
    IF files = <<>> THEN <<>>
    ELSE IF filter => IsImageFile[Head(files)]
         THEN <<ImageObjects[Head(files), acq]>> \o Pushed(Tail(files), acq, filter)
         ELSE Pushed(Tail(files), acq, filter)

\* Array.prototype.splice(index, 1) and ListBox.remove(index), 0-based index
splice1(s, index) == SubSeq(s, 1, index) \o SubSeq(s, index + 2, Len(s))

dialogVars == <<dlgImages, fileListBox, chosenFiles>>
mainVars == <<first, second, images, masks, MMs, pMaps, averages>>
docVars == <<layer, docOpen, docLayers, pMapsGroup, groupLayers, activeLayer,
             links, edits, flipped>>

\* "Add Files" with the files of `offered` to pick from: File.openDialog
\* returned `files` (a batch), or null
AddFilesFrom(offered) ==
    /\ DialogOpen
    /\ \/ UNCHANGED dialogVars                      \* files is null
       \/ \E n \in 1..MaxBatch : \E files \in [1..n -> offered] :
            LET new == Pushed(files, isFirst, script = "part_002")
            IN  /\ Len(first) + Len(dlgImages) + n <= MaxImages
                /\ dlgImages' = dlgImages \o new
                /\ fileListBox' = fileListBox \o [i \in 1..Len(new) |-> new[i].file.name]
                /\ chosenFiles' = files
    /\ UNCHANGED <<script, pc, shown, ret, mainVars, docVars>>

\* "Add Files"
AddFiles == AddFilesFrom(Selectable[script])

\* "Remove" (part_002): `selected` is fileListBox.selection, 0 for none,
\* otherwise the 1-based position of the selected item
Remove ==
    /\ DialogOpen
    /\ script = "part_002"
    /\ \E selected \in 0..Len(fileListBox) :
         IF selected = 0
         THEN UNCHANGED dialogVars                  \* alert, return
         ELSE /\ dlgImages' = splice1(dlgImages, selected - 1)
              /\ fileListBox' = splice1(fileListBox, selected - 1)
              /\ chosenFiles' = <<>>
    /\ UNCHANGED <<script, pc, shown, ret, mainVars, docVars>>

\* a main without the null checks: it goes on with an empty array
CloseDialogGoesOn(cancelled) ==
    /\ ret' = [ret EXCEPT ![acquisitionLabel] = IF cancelled THEN "null" ELSE "array"]
    /\ dlgImages' = <<>>
    /\ fileListBox' = <<>>
    /\ chosenFiles' = <<>>
    /\ IF pc = "first"
       THEN /\ first' = IF cancelled THEN <<>> ELSE dlgImages
            /\ pc' = "second"
            /\ shown' = shown \cup {"SECOND"}
            /\ UNCHANGED second
       ELSE /\ second' = IF cancelled THEN <<>> ELSE dlgImages
            /\ pc' = "orderImages"
            /\ UNCHANGED <<shown, first>>
    /\ UNCHANGED <<script, images, masks, MMs, pMaps, averages, docVars>>

\* dlg.close() followed by the return of collectImages to main, with
\* cancelled as given; main goes on to the second dialog or to the ordering,
\* or returns when the result is null (part_002)
CloseDialog(cancelled) ==
    /\ ret' = [ret EXCEPT ![acquisitionLabel] = IF cancelled THEN "null" ELSE "array"]
    /\ dlgImages' = <<>>
    /\ fileListBox' = <<>>
    /\ chosenFiles' = <<>>
    /\ IF cancelled
       THEN /\ pc' = "exit"
            /\ UNCHANGED <<shown, first, second>>
       ELSE IF pc = "first"
       THEN /\ first' = dlgImages
            /\ pc' = "second"
            /\ shown' = shown \cup {"SECOND"}
            /\ UNCHANGED second
       ELSE /\ second' = dlgImages
            /\ pc' = "orderImages"
            /\ UNCHANGED <<shown, first>>
    /\ UNCHANGED <<script, images, masks, MMs, pMaps, averages, docVars>>

\* "Cancel Script" (part_002)
CancelScript ==
    /\ DialogOpen
    /\ script = "part_002"
    /\ CloseDialog(TRUE)

\* does doneButton.onClick close the dialog
DoneCloses == IF script = "part_002" THEN Len(dlgImages) # 0 ELSE TRUE

\* "Done"
Done ==
    /\ DialogOpen
    /\ IF DoneCloses
       THEN CloseDialog(FALSE)
       ELSE UNCHANGED vars                          \* alert, keep dialog open

(***************************************************************************)
(* orderImages (part_002) / reorderImages (StackMM.jsx).                   *)
(***************************************************************************)
\* first.concat(second); every ImageObject gets `id`, its position in the
\* concatenation, which stands for the identity of the object
Identified(s) ==
    [i \in 1..Len(s) |->
        [id |-> i,
         file |-> s[i].file,
         isFirstAcquisition |-> s[i].isFirstAcquisition,
         isPMap |-> s[i].isPMap,
         isMask |-> s[i].isMask,
         isAverage |-> s[i].isAverage,
         isMM |-> s[i].isMM]]

\* the if / else-if chain that pushes im to one of the four arrays
categoryOf(im) ==
    IF im.isMask THEN "masks"
    ELSE IF im.isPMap THEN "pMaps"
    ELSE IF im.isAverage THEN "averages"
    ELSE IF im.isMM THEN "MMs"
    ELSE "none"

\* a partition that tests each flag on its own, without the else
SeparateByFlag(imgs, category) ==
    SelectSeq(imgs, LAMBDA im :
        \/ category = "masks" /\ im.isMask
        \/ category = "pMaps" /\ im.isPMap
        \/ category = "averages" /\ im.isAverage
        \/ category = "MMs" /\ im.isMM)

\* the array of one category after the partition loop, in input order
Separate(imgs, category) == SelectSeq(imgs, LAMBDA im : categoryOf(im) = category)

\* a comparator that puts the second acquisition first
acquisitionSortSecondFirst(a, b) ==
    IF a.isFirstAcquisition = b.isFirstAcquisition
    THEN CompareNames[a.file.name, b.file.name]
    ELSE IF a.isFirstAcquisition THEN 1 ELSE -1

\* the comparator: negative, zero or positive
acquisitionSort(a, b) ==
    IF a.isFirstAcquisition = b.isFirstAcquisition
    THEN CompareNames[a.file.name, b.file.name]
    ELSE IF a.isFirstAcquisition THEN -1 ELSE 1

InsertAt(s, k, x) == SubSeq(s, 1, k) \o <<x>> \o SubSeq(s, k + 1, Len(s))

\* Array.prototype.sort(acquisitionSort): ECMAScript 3 leaves the order of
\* elements that compare equal to the implementation, so every arrangement
\* that agrees with the comparator is a possible result
RECURSIVE sort(_)
sort(s) ==
    IF s = <<>> THEN {<<>>}
    ELSE LET x == s[Len(s)]
         IN  UNION { { InsertAt(r, k, x) :
                         k \in { j \in 0..Len(r) :
                                   /\ \A i \in 1..j : acquisitionSort(r[i], x) <= 0
                                   /\ \A i \in (j + 1)..Len(r) : acquisitionSort(x, r[i]) <= 0 } }
                     : r \in sort(SubSeq(s, 1, Len(s) - 1)) }

\* a concatenation with pMaps and MMs swapped
OrderedSwapped(av, pm, mm, mk) == av \o mm \o pm \o mk

\* averages.concat(pMaps, MMs, masks)
Ordered(av, pm, mm, mk) == av \o pm \o mm \o mk

\* main: images = first.concat(second); parts = orderImages(images); ...
OrderImages ==
    /\ pc = "orderImages"
    /\ LET input == Identified(first \o second)
       IN  /\ \E mk \in sort(Separate(input, "masks")),
                 mm \in sort(Separate(input, "MMs")),
                 pm \in sort(Separate(input, "pMaps")),
                 av \in sort(Separate(input, "averages")) :
                 /\ masks' = mk
                 /\ MMs' = mm
                 /\ pMaps' = pm
                 /\ averages' = av
                 /\ images' = Ordered(av, pm, mm, mk)
           /\ layer' = [i \in 1..Len(input) |-> 0]
    /\ pc' = "configureDoc"
    /\ UNCHANGED <<script, shown, dialogVars, ret, first, second, docOpen,
                   docLayers, pMapsGroup, groupLayers, activeLayer, links,
                   edits, flipped>>

(***************************************************************************)
(* The document: configureDoc, addLayers, groupPMaps, linkAcquisitions,    *)
(* editMasks, flipCanvas.  Layers are numbered in the order of creation.   *)
(***************************************************************************)
Without(s, x) == SelectSeq(s, LAMBDA y : y # x)
PositionOf(s, x) == CHOOSE i \in 1..Len(s) : s[i] = x

\* configureDoc: app.open(images[0].file); reading images[0].file of an empty
\* array throws, which ends the script
ConfigureDoc ==
    /\ pc = "configureDoc"
    /\ IF images = <<>>
       THEN /\ pc' = "error"
            /\ UNCHANGED docVars
       ELSE /\ pc' = "addLayers"
            /\ docOpen' = TRUE
            /\ docLayers' = <<1>>
            /\ activeLayer' = 1
            /\ edits' = << <<>> >>
            /\ layer' = [layer EXCEPT ![images[1].id] = 1]
            /\ UNCHANGED <<pMapsGroup, groupLayers, links, flipped>>
    /\ UNCHANGED <<script, shown, dialogVars, ret, mainVars>>

\* ArtLayer.duplicate(doc): the copy lands on top of the stack of doc and is
\* its active layer
duplicate(layers, new) == <<new>> \o layers

\* the loop of addLayers from the 1-based position i on
RECURSIVE addLayersLoop(_, _)
addLayersLoop(i, st) ==
    IF i > Len(images) THEN st
    ELSE LET new == Len(st.edits) + 1
         IN  addLayersLoop(i + 1,
                [docLayers |-> duplicate(st.docLayers, new),
                 activeLayer |-> new,
                 edits |-> Append(st.edits, <<>>),
                 layer |-> [st.layer EXCEPT ![images[i].id] = new]])

AddLayers ==
    /\ pc = "addLayers"
    /\ LET st == addLayersLoop(2, [docLayers |-> docLayers, activeLayer |-> activeLayer,
                                   edits |-> edits, layer |-> layer])
       IN  /\ docLayers' = st.docLayers
           /\ activeLayer' = st.activeLayer
           /\ edits' = st.edits
           /\ layer' = st.layer
    /\ pc' = "groupPMaps"
    /\ UNCHANGED <<script, shown, dialogVars, ret, mainVars, docOpen, pMapsGroup,
                   groupLayers, links, flipped>>

\* groupPMaps: the layer of the first image that is an MM, or 0 (null)
bottomMM ==
    IF \E i \in 1..Len(images) : images[i].isMM
    THEN layer[images[CHOOSE i \in 1..Len(images) :
                         /\ images[i].isMM
                         /\ \A j \in 1..(i - 1) : ~images[j].isMM].id]
    ELSE 0

\* a move that puts the layer at the bottom of the group
RECURSIVE moveInsideAtEnd(_, _)
moveInsideAtEnd(i, st) ==
    IF i > Len(pMaps) THEN st
    ELSE LET l == layer[pMaps[i].id]
         IN  moveInsideAtEnd(i + 1, [docLayers |-> Without(st.docLayers, l),
                                     groupLayers |-> Append(st.groupLayers, l)])

\* a loop that moves every image whose name holds "pmap" into the group
RECURSIVE moveInsideByFlag(_, _)
moveInsideByFlag(i, st) ==
    IF i > Len(images) THEN st
    ELSE IF images[i].isPMap
    THEN LET l == layer[images[i].id]
         IN  moveInsideByFlag(i + 1, [docLayers |-> Without(st.docLayers, l),
                                      groupLayers |-> <<l>> \o st.groupLayers])
    ELSE moveInsideByFlag(i + 1, st)

\* layer.move(group, ElementPlacement.INSIDE): the layer leaves the top-level
\* stack and becomes the top layer of the group
RECURSIVE moveInside(_, _)
moveInside(i, st) ==
    IF i > Len(pMaps) THEN st
    ELSE LET l == layer[pMaps[i].id]
         IN  moveInside(i + 1, [docLayers |-> Without(st.docLayers, l),
                                groupLayers |-> <<l>> \o st.groupLayers])

\* group.move(target, ElementPlacement.PLACEAFTER): right below the target
placeAfter(layers, group, target) ==
    LET rest == Without(layers, group)
        k == PositionOf(rest, target)
    IN  SubSeq(rest, 1, k) \o <<group>> \o SubSeq(rest, k + 1, Len(rest))

\* does groupPMaps call pMapsGroup.move(bottomMM, PLACEAFTER)
MovesGroup == IF script = "part_002" THEN bottomMM # 0 ELSE TRUE

GroupPMaps ==
    /\ pc = "groupPMaps"
    /\ LET group == Len(edits) + 1
           st == moveInside(1, [docLayers |-> <<group>> \o docLayers,
                                groupLayers |-> <<>>])
       IN  /\ pMapsGroup' = group
           /\ activeLayer' = group
           /\ edits' = Append(edits, <<>>)
           /\ groupLayers' = st.groupLayers
           /\ IF ~MovesGroup
              THEN /\ docLayers' = st.docLayers
                   /\ pc' = "linkAcquisitions"
              ELSE IF bottomMM = 0
              THEN /\ docLayers' = st.docLayers     \* move(null, ...) throws
                   /\ pc' = "error"
              ELSE /\ docLayers' = placeAfter(st.docLayers, group, bottomMM)
                   /\ pc' = "linkAcquisitions"
    /\ UNCHANGED <<script, shown, dialogVars, ret, mainVars, layer, docOpen,
                   links, flipped>>

\* a loop that links every layer to the first layer of the first acquisition
RECURSIVE linkLoopOneSet(_, _, _, _)
linkLoopOneSet(i, f1, s1, acc) ==
    IF i > Len(images) THEN acc
    ELSE LET l == layer[images[i].id]
         IN  IF f1 = 0 THEN linkLoopOneSet(i + 1, l, s1, acc)
             ELSE linkLoopOneSet(i + 1, f1, s1, acc \cup {<<f1, l>>})

\* the loop of linkAcquisitions from the 1-based position i on; f1 and s1 are
\* firstAcquisitionLayer1 and secondAcquisitionLayer1 (0 = null)
RECURSIVE linkLoop(_, _, _, _)
linkLoop(i, f1, s1, acc) ==
    IF i > Len(images) THEN acc
    ELSE LET l == layer[images[i].id]
         IN  IF images[i].isFirstAcquisition
             THEN IF f1 = 0 THEN linkLoop(i + 1, l, s1, acc)
                  ELSE linkLoop(i + 1, f1, s1, acc \cup {<<f1, l>>})
             ELSE IF s1 = 0 THEN linkLoop(i + 1, f1, l, acc)
                  ELSE linkLoop(i + 1, f1, s1, acc \cup {<<s1, l>>})

LinkAcquisitions ==
    /\ pc = "linkAcquisitions"
    /\ links' = linkLoop(1, 0, 0, links)
    /\ pc' = "editMasks"
    /\ UNCHANGED <<script, shown, dialogVars, ret, mainVars, layer, docOpen,
                   docLayers, pMapsGroup, groupLayers, activeLayer, edits, flipped>>

\* a deleteBlackPixelsFromLayer that does not make the layer active
deleteBlackPixelsFromActive(st, l) ==
    [activeLayer |-> st.activeLayer,
     edits |-> [st.edits EXCEPT ![st.activeLayer] = Append(@, "clear")]]

\* deleteBlackPixelsFromLayer: the layer becomes active and the only visible
\* one, and doc.selection.clear() clears the selected pixels of the active layer
deleteBlackPixelsFromLayer(st, l) ==
    LET active == l
    IN  [activeLayer |-> active,
         edits |-> [st.edits EXCEPT ![active] = Append(@, "clear")]]

\* ArtLayer.invert
invert(st, l) ==
    [activeLayer |-> st.activeLayer,
     edits |-> [st.edits EXCEPT ![l] = Append(@, "invert")]]

\* one pass of the loop body of editMasks
editMask(st, l) == invert(deleteBlackPixelsFromLayer(st, l), l)

RECURSIVE editMasksLoop(_, _)
editMasksLoop(i, st) ==
    IF i > Len(masks) THEN st
    ELSE editMasksLoop(i + 1, editMask(st, layer[masks[i].id]))

EditMasks ==
    /\ pc = "editMasks"
    /\ LET st == editMasksLoop(1, [activeLayer |-> activeLayer, edits |-> edits])
       IN  /\ activeLayer' = st.activeLayer
           /\ edits' = st.edits
    /\ pc' = "flipCanvas"
    /\ UNCHANGED <<script, shown, dialogVars, ret, mainVars, layer, docOpen,
                   docLayers, pMapsGroup, groupLayers, links, flipped>>

FlipCanvas ==
    /\ pc = "flipCanvas"
    /\ flipped' = TRUE
    /\ pc' = "done"
    /\ UNCHANGED <<script, shown, dialogVars, ret, mainVars, layer, docOpen,
                   docLayers, pMapsGroup, groupLayers, activeLayer, links, edits>>

(***************************************************************************)
(* The script.                                                             *)
(***************************************************************************)
Init ==
    /\ script \in Scripts
    /\ pc = "first"
    /\ shown = {"FIRST"}
    /\ dlgImages = <<>>
    /\ fileListBox = <<>>
    /\ chosenFiles = <<>>
    /\ ret = [l \in Labels |-> "pending"]
    /\ first = <<>>
    /\ second = <<>>
    /\ images = <<>>
    /\ masks = <<>>
    /\ MMs = <<>>
    /\ pMaps = <<>>
    /\ averages = <<>>
    /\ layer = <<>>
    /\ docOpen = FALSE
    /\ docLayers = <<>>
    /\ pMapsGroup = 0
    /\ groupLayers = <<>>
    /\ activeLayer = 0
    /\ links = {}
    /\ edits = <<>>
    /\ flipped = FALSE

Next ==
    \/ AddFiles
    \/ Remove
    \/ CancelScript
    \/ Done
    \/ OrderImages
    \/ ConfigureDoc
    \/ AddLayers
    \/ GroupPMaps
    \/ LinkAcquisitions
    \/ EditMasks
    \/ FlipCanvas

Spec == Init /\ [][Next]_vars

(***************************************************************************)
(* The ordering alone: main has collected `first` and `second`, any lists  *)
(* of images the two dialogs can return, and calls orderImages.            *)
(***************************************************************************)
\* the image files both revisions accept
OrderFiles ==
    {f \in {[name |-> n] : n \in OrderFileNames} :
        /\ isImage(f.name)
        /\ \E e \in filterExts : EndsWith(f.name, e)}

\* the fewest images a dialog returns: Done of part_002 wants one
MinReturned(sc) == IF sc = "part_002" THEN 1 ELSE 0

InitOrder ==
    /\ script \in Scripts
    /\ pc = "orderImages"
    /\ shown = {"FIRST", "SECOND"}
    /\ dlgImages = <<>>
    /\ fileListBox = <<>>
    /\ chosenFiles = <<>>
    /\ ret = [l \in Labels |-> "array"]
    /\ \E n1 \in MinReturned(script)..MaxInput :
         \E n2 \in MinReturned(script)..(MaxInput - n1) :
            /\ first \in [1..n1 -> {ImageObject(f, TRUE) : f \in OrderFiles}]
            /\ second \in [1..n2 -> {ImageObject(f, FALSE) : f \in OrderFiles}]
    /\ images = <<>>
    /\ masks = <<>>
    /\ MMs = <<>>
    /\ pMaps = <<>>
    /\ averages = <<>>
    /\ layer = <<>>
    /\ docOpen = FALSE
    /\ docLayers = <<>>
    /\ pMapsGroup = 0
    /\ groupLayers = <<>>
    /\ activeLayer = 0
    /\ links = {}
    /\ edits = <<>>
    /\ flipped = FALSE

NextOrder == OrderImages

SpecOrder == InitOrder /\ [][NextOrder]_vars

(***************************************************************************)
(* The dialogs of part_002 alone, with the files of ExtensionFiles to pick *)
(* from: collectImages up to its return to main.                           *)
(***************************************************************************)
InitAdd == Init /\ script = "part_002"

NextAdd ==
    \/ AddFilesFrom(ExtensionFiles)
    \/ Remove
    \/ CancelScript
    \/ Done

SpecAdd == InitAdd /\ [][NextAdd]_vars

(***************************************************************************)
(* Properties.                                                             *)
(***************************************************************************)
\* orderImages has just returned: images, masks, MMs, pMaps, averages are its
\* result (main does not assign them again)
Ordering == pc = "configureDoc"

\* c is the letter k in lower or in upper case
SameLetter(c, k) == c = k \/ c = UpperCase[IndexIn(LowerCase, k)]

\* the name contains the keyword, letter case ignored
ContainsKeywordAt(name, kw) ==
    \E p \in 0..(Len(name) - Len(kw)) :
        \A k \in 1..Len(kw) : SameLetter(name[p + k], kw[k])

\* the keywords each file name contains
KeywordsIn ==
    [name \in FileNames \cup OrderFileNames \cup ExtensionFileNames |->
        {kw \in {kwMask, kwPMap, kwAverage} : ContainsKeywordAt(name, kw)}]

ContainsKeyword(name, kw) == kw \in KeywordsIn[name]

NoKeyword(name) == KeywordsIn[name] = {}

\* the name classifies as the flags of the ImageObject say
ClassifiedByName(im) ==
    /\ im.isMask <=> ContainsKeyword(im.file.name, kwMask)
    /\ im.isPMap <=> ContainsKeyword(im.file.name, kwPMap)
    /\ im.isAverage <=> ContainsKeyword(im.file.name, kwAverage)
    /\ im.isMM <=> NoKeyword(im.file.name)

\* C1: every image is classified by case-insensitive substring match on its
\* file name: isMask, isPMap, isAverage hold exactly when the name contains
\* "mask", "pmap", "average" in any letter case; isMM holds, and orderImages
\* puts the image in MMs, exactly when the name contains none of the three.
C1_Classification ==
    /\ \A im \in Range(dlgImages) : ClassifiedByName(im)
    /\ Ordering =>
         \A im \in Range(Identified(first \o second)) :
            /\ ClassifiedByName(im)
            /\ im \in Range(MMs) <=> NoKeyword(im.file.name)

\* C1 witness: ordered images with a mask whose keyword is not in lower case,
\* an image with two keywords, and an MM
C1_Witness ==
    /\ Ordering
    /\ \E im \in Range(masks) : indexOf(im.file.name, kwMask) = -1 /\ ~im.isPMap
    /\ \E im \in Range(masks) : im.isPMap
    /\ MMs # <<>>

\* the 1-based positions of the images of a category list in `images`
PositionsOf(list) == {i \in 1..Len(images) : images[i] \in Range(list)}

\* every position in a precedes every position in b
Precede(a, b) == \A i \in a, j \in b : i < j

\* C2: `ordered` is the four category lists in the order averages, pMaps, MMs,
\* masks: every average precedes every pMap, every pMap every MM, and every
\* MM every mask.
C2_FixedOrder ==
    Ordering =>
        /\ Len(images) = Len(averages) + Len(pMaps) + Len(MMs) + Len(masks)
        /\ SubSeq(images, 1, Len(averages)) = averages
        /\ SubSeq(images, Len(averages) + 1, Len(averages) + Len(pMaps)) = pMaps
        /\ SubSeq(images, Len(averages) + Len(pMaps) + 1,
                  Len(averages) + Len(pMaps) + Len(MMs)) = MMs
        /\ SubSeq(images, Len(images) - Len(masks) + 1, Len(images)) = masks
        /\ Precede(PositionsOf(averages), PositionsOf(pMaps))
        /\ Precede(PositionsOf(pMaps), PositionsOf(MMs))
        /\ Precede(PositionsOf(MMs), PositionsOf(masks))

\* C2 witness: an ordering in which all four categories are present
C2_Witness ==
    /\ Ordering
    /\ averages # <<>> /\ pMaps # <<>> /\ MMs # <<>> /\ masks # <<>>

\* the list is sorted by the key (acquisition, file name)
SortedByKey(list) ==
    \A i \in 1..Len(list), j \in 1..Len(list) :
        i < j =>
            \/ list[i].isFirstAcquisition /\ ~list[j].isFirstAcquisition
            \/ /\ list[i].isFirstAcquisition = list[j].isFirstAcquisition
               /\ CompareNames[list[i].file.name, list[j].file.name] <= 0

\* C5: each of the four category lists returned by orderImages is sorted by
\* the key (acquisition, file name): of two elements, the earlier one is from
\* the first acquisition and the later from the second, or both are from the
\* same acquisition and the earlier name does not compare greater.
C5_SortedByKey ==
    Ordering =>
        /\ SortedByKey(masks)
        /\ SortedByKey(MMs)
        /\ SortedByKey(pMaps)
        /\ SortedByKey(averages)

\* C5 witness: a category list with images of both acquisitions that the
\* sort had to rearrange within both acquisitions
C5_Witness ==
    /\ Ordering
    /\ Len(masks) = 4
    /\ masks[1].isFirstAcquisition /\ masks[2].isFirstAcquisition
    /\ ~masks[3].isFirstAcquisition /\ ~masks[4].isFirstAcquisition
    /\ masks[1].id = 2 /\ masks[2].id = 1 /\ masks[3].id = 4 /\ masks[4].id = 3
    /\ masks[1].file.name # masks[2].file.name
    /\ masks[3].file.name # masks[4].file.name

(***************************************************************************)
(* Properties of the document.                                             *)
(***************************************************************************)
\* the layers of the images of a category list
LayersOf(list) == {layer[list[i].id] : i \in 1..Len(list)}

\* the image layers of the document from top to bottom, the layers of the
\* layer set in the place of the layer set
Stack ==
    IF pMapsGroup \in Range(docLayers)
    THEN LET k == PositionOf(docLayers, pMapsGroup)
         IN  SubSeq(docLayers, 1, k - 1) \o groupLayers
                \o SubSeq(docLayers, k + 1, Len(docLayers))
    ELSE docLayers

\* every layer of a is above every layer of b in the stack
Above(a, b) ==
    \A x \in a, y \in b : PositionOf(Stack, x) < PositionOf(Stack, y)

\* groupPMaps has run: it returned, or it threw after adding the layer set
Grouped == pc = "linkAcquisitions" \/ (pc = "error" /\ pMapsGroup # 0)

\* C3: after addLayers and groupPMaps on a non-empty selection the stack is,
\* from top to bottom: the mask layers, the MM layers, the pMaps (inside the
\* pMaps group), the average-image layers.
C3_StackOrder ==
    Grouped =>
        /\ Range(Stack) = LayersOf(images)
        /\ Len(Stack) = Len(images)
        /\ Above(LayersOf(masks), LayersOf(MMs))
        /\ Above(LayersOf(masks), LayersOf(pMaps))
        /\ Above(LayersOf(masks), LayersOf(averages))
        /\ Above(LayersOf(MMs), LayersOf(pMaps))
        /\ Above(LayersOf(MMs), LayersOf(averages))
        /\ Above(LayersOf(pMaps), LayersOf(averages))
        /\ LayersOf(pMaps) \subseteq Range(groupLayers)

\* the stack is final: the script has ended after groupPMaps ran
FinalStack == pc = "done" \/ (pc = "error" /\ pMapsGroup # 0)

\* in the sequence of layers, the layers of the list that are from the second
\* acquisition are above those from the first
SecondAboveFirst(layers, list) ==
    \A i \in 1..Len(list), j \in 1..Len(list) :
        (~list[i].isFirstAcquisition /\ list[j].isFirstAcquisition) =>
            PositionOf(layers, layer[list[i].id]) < PositionOf(layers, layer[list[j].id])

\* C4: in the final stack, within each category (masks, MMs, average images,
\* and the pMap layers inside the pMaps group) every second-acquisition layer
\* is above every first-acquisition layer.
C4_SecondAboveFirst ==
    FinalStack =>
        /\ SecondAboveFirst(docLayers, masks)
        /\ SecondAboveFirst(docLayers, MMs)
        /\ SecondAboveFirst(docLayers, averages)
        /\ SecondAboveFirst(groupLayers, pMaps)

\* C4 witness: the script has ended with pMaps of both acquisitions in the
\* group and masks of both acquisitions
C4_Witness ==
    /\ pc = "done"
    /\ \E i, j \in 1..Len(pMaps) :
         pMaps[i].isFirstAcquisition /\ ~pMaps[j].isFirstAcquisition
    /\ \E i, j \in 1..Len(masks) :
         masks[i].isFirstAcquisition /\ ~masks[j].isFirstAcquisition

\* C6: after groupPMaps the layer of every pMap image (every image of the
\* pMaps list) is inside the layer set, and no layer of a mask, MM or average
\* image is inside it.
C6_OnlyPMapsGrouped ==
    Grouped =>
        /\ LayersOf(pMaps) \subseteq Range(groupLayers)
        /\ LayersOf(pMaps) \cap Range(docLayers) = {}
        /\ (LayersOf(masks) \cup LayersOf(MMs) \cup LayersOf(averages))
              \cap Range(groupLayers) = {}
        /\ (LayersOf(masks) \cup LayersOf(MMs) \cup LayersOf(averages))
              \subseteq Range(docLayers)

\* C6 witness: groupPMaps has returned with pMaps in the group while a mask
\* whose name holds "pmap", an MM and an average image exist
C6_Witness ==
    /\ pc = "linkAcquisitions"
    /\ pMaps # <<>> /\ MMs # <<>> /\ averages # <<>>
    /\ \E i \in 1..Len(masks) : masks[i].isPMap
    /\ groupLayers # <<>>

\* the layers linked with the layer a, link being symmetric and transitive
RECURSIVE LinkedWith(_)
LinkedWith(set) ==
    LET more == set \cup {p[2] : p \in {q \in links : q[1] \in set}}
                    \cup {p[1] : p \in {q \in links : q[2] \in set}}
    IN  IF more = set THEN set ELSE LinkedWith(more)

\* C7: after linkAcquisitions two distinct image layers are linked if and only
\* if their images are from the same acquisition.
C7_LinkedByAcquisition ==
    pc = "editMasks" =>
        \A i \in 1..Len(images), j \in 1..Len(images) :
            i # j =>
                (layer[images[j].id] \in LinkedWith({layer[images[i].id]})
                    <=> images[i].isFirstAcquisition = images[j].isFirstAcquisition)

\* C7 witness: linkAcquisitions has run on two images of each acquisition
C7_Witness ==
    /\ pc = "editMasks"
    /\ Cardinality({i \in 1..Len(images) : images[i].isFirstAcquisition}) = 2
    /\ Cardinality({i \in 1..Len(images) : ~images[i].isFirstAcquisition}) = 2

\* editMasks has run
MasksEdited == pc \in {"flipCanvas", "done"}

\* C8: editMasks processes every mask layer once, deleting its black pixels
\* before inverting it, and no other layer ever has pixels deleted or is
\* inverted.
C8_MasksEditedOnce ==
    \A l \in 1..Len(edits) :
        IF l \in LayersOf(masks)
        THEN edits[l] = IF MasksEdited THEN <<"clear", "invert">> ELSE <<>>
        ELSE edits[l] = <<>>

\* C8 witness: editMasks has run on two masks in a document that also holds
\* a pMap and an MM
C8_Witness ==
    /\ MasksEdited
    /\ Len(masks) = 2 /\ pMaps # <<>> /\ MMs # <<>>

(***************************************************************************)
(* Properties of the dialogs.                                              *)
(***************************************************************************)
\* nothing has been done to any document
NoDocumentWork ==
    /\ ~docOpen
    /\ docLayers = <<>>
    /\ pMapsGroup = 0
    /\ groupLayers = <<>>
    /\ links = {}
    /\ edits = <<>>
    /\ ~flipped
    /\ images = <<>>

\* C9: when "Cancel Script" is clicked in either dialog, collectImages returns
\* null and main exits without opening a document, creating, grouping or
\* linking layers, editing masks or flipping; after a cancel in the first
\* dialog the second dialog is never shown.
C9_CancelExits ==
    /\ pc = "exit" <=> (\E l \in Labels : ret[l] = "null")
    /\ pc = "exit" => NoDocumentWork
    /\ ret["FIRST"] = "null" => ("SECOND" \notin shown /\ ret["SECOND"] = "pending")

\* C9 witness: the script was cancelled in the second dialog, after images
\* had been collected in the first
C9_Witness ==
    /\ pc = "exit"
    /\ ret["SECOND"] = "null"
    /\ first # <<>>

\* C9 witness of the other case: cancelled in the first dialog
C9_WitnessFirst == pc = "exit" /\ ret["FIRST"] = "null"

\* C10: "Done" with no image selected keeps the dialog open, so collectImages
\* never returns an empty array and configureDoc is reached only with a
\* non-empty image list.
C10_NeverEmpty ==
    /\ ret["FIRST"] = "array" => first # <<>>
    /\ ret["SECOND"] = "array" => second # <<>>
    /\ pc = "configureDoc" => images # <<>>

(***************************************************************************)
(* Properties of isImage and of the Add Files button.                      *)
(***************************************************************************)
\* the 1-based position of the last "." of the name, 0 if it has none
LastDot(name) ==
    IF \E i \in 1..Len(name) : name[i] = "."
    THEN CHOOSE i \in 1..Len(name) :
            name[i] = "." /\ \A j \in (i + 1)..Len(name) : name[j] # "."
    ELSE 0

\* the two characters are the same, letter case ignored
SameCharacter(c, d) ==
    \/ c = d
    \/ c \in UpperSet /\ d \in LowerSet /\ IndexIn(UpperCase, c) = IndexIn(LowerCase, d)
    \/ c \in LowerSet /\ d \in UpperSet /\ IndexIn(LowerCase, c) = IndexIn(UpperCase, d)

\* the text of the name from the 1-based position d on is e, letter case ignored
TailIs(name, d, e) ==
    /\ Len(name) - d + 1 = Len(e)
    /\ \A k \in 1..Len(e) : SameCharacter(name[d + k - 1], e[k])

\* the names whose text from the last "." on is a supported extension
SupportedNames ==
    {name \in FileNames \cup ExtensionFileNames :
        /\ LastDot(name) # 0
        /\ \E e \in { <<".","j","p","g">>, <<".","j","p","e","g">>, <<".","p","n","g">>,
                      <<".","t","i","f">>, <<".","t","i","f","f">> } :
              TailIs(name, LastDot(name), e)}

\* the files of the sequence whose names are supported, in their order
SupportedAmong(files) == SelectSeq(files, LAMBDA f : f.name \in SupportedNames)

\* C11: isImage is true of a name exactly when its text from the last "." on
\* is, letter case ignored, one of .jpg, .jpeg, .png, .tif, .tiff (false
\* without a "."); Add Files adds a chosen file exactly when isImage is true
\* of its name, so every image collectImages returns has such an extension.
C11_OnlyImagesAdded ==
    /\ \A i \in 1..Len(chosenFiles) :
         IsImageFile[chosenFiles[i]] <=> chosenFiles[i].name \in SupportedNames
    /\ LET kept == SupportedAmong(chosenFiles)
           n == Len(dlgImages) - Len(kept)
       IN  /\ n >= 0
           /\ \A k \in 1..Len(kept) : dlgImages[n + k].file = kept[k]
    /\ \A im \in Range(dlgImages) \cup Range(first) \cup Range(second) :
         im.file.name \in SupportedNames
    /\ fileListBox = [i \in 1..Len(dlgImages) |-> dlgImages[i].file.name]

\* C11 witness: collectImages has returned images picked in a batch that also
\* held files without a supported extension, among them an image whose name
\* has two dots
C11_Witness ==
    /\ pc = "second"
    /\ \E i \in 1..Len(first) : first[i].file.name = AXPng
    /\ \E i \in 1..Len(first) : first[i].file.name = ATif
    /\ \E i \in 1..Len(chosenFiles) : chosenFiles[i].name = ATifX
    /\ \E i \in 1..Len(chosenFiles) : chosenFiles[i].name = DotJpg

(***************************************************************************)
(* Properties of orderImages as a partition.                               *)
(***************************************************************************)
\* the input of orderImages: first.concat(second), each image with its place
Input == Identified(first \o second)

\* how many times the image occurs in the list
Occurrences(s, im) == Cardinality({i \in 1..Len(s) : s[i] = im})

\* the images of the list
IdsOf(s) == {s[i].id : i \in 1..Len(s)}

\* C12: orderImages neither loses nor duplicates images: the four category
\* lists are pairwise disjoint, together they hold every input image exactly
\* once, and ordered is a permutation of the input, of the same length.
C12_Partition ==
    Ordering =>
        /\ IdsOf(masks) \cap IdsOf(MMs) = {}
        /\ IdsOf(masks) \cap IdsOf(pMaps) = {}
        /\ IdsOf(masks) \cap IdsOf(averages) = {}
        /\ IdsOf(MMs) \cap IdsOf(pMaps) = {}
        /\ IdsOf(MMs) \cap IdsOf(averages) = {}
        /\ IdsOf(pMaps) \cap IdsOf(averages) = {}
        /\ \A i \in 1..Len(Input) :
             Occurrences(masks, Input[i]) + Occurrences(MMs, Input[i])
               + Occurrences(pMaps, Input[i]) + Occurrences(averages, Input[i]) = 1
        /\ Len(masks) + Len(MMs) + Len(pMaps) + Len(averages) = Len(Input)
        /\ Len(images) = Len(Input)
        /\ \A i \in 1..Len(Input) : Occurrences(images, Input[i]) = 1

\* C12 witness: an input with the same two-keyword file chosen twice has been
\* ordered, and three of the categories are not empty
C12_Witness ==
    /\ Ordering
    /\ \E i, j \in 1..Len(Input) :
         /\ i < j
         /\ Input[i].file = Input[j].file
         /\ Input[i].isFirstAcquisition = Input[j].isFirstAcquisition
         /\ Input[i].isMask /\ Input[i].isPMap
    /\ masks # <<>> /\ pMaps # <<>> /\ averages # <<>>

(***************************************************************************)
(* Stability of the sort of each category.                                 *)
(***************************************************************************)
\* the place in the list of the image with this id
PlaceOf(s, id) == CHOOSE i \in 1..Len(s) : s[i].id = id

\* the category list the image was pushed to, after its sort
ListOf(im) ==
    CASE categoryOf(im) = "masks" -> masks
      [] categoryOf(im) = "pMaps" -> pMaps
      [] categoryOf(im) = "averages" -> averages
      [] OTHER -> MMs

\* the two input images have the same category, acquisition and file name
SameKey(a, b) ==
    /\ categoryOf(a) = categoryOf(b)
    /\ a.isFirstAcquisition = b.isFirstAcquisition
    /\ a.file.name = b.file.name

\* C13: the sort of each category is stable: two images of one category, from
\* the same acquisition and with the same file name, keep their input order
\* in the category list and in ordered.
C13_StableSort ==
    Ordering =>
        \A i, j \in 1..Len(Input) :
            (i < j /\ SameKey(Input[i], Input[j])) =>
                /\ PlaceOf(ListOf(Input[i]), i) < PlaceOf(ListOf(Input[j]), j)
                /\ PlaceOf(images, i) < PlaceOf(images, j)

====
